---- MODULE Spec2Model ----
(***************************************************************************)
(* Model of src/thread_pool/callback.rs: the callback task (Task::Once /   *)
(* Task::Mut), Runner::handle with its bounded in-place spin, the           *)
(* execution Handle, the Remote handle, RunnerFactory and the SingleQueue   *)
(* reference queue, driven by worker threads.                               *)
(***************************************************************************)
EXTENDS Integers, Sequences, FiniteSets, TLC

\* ---------------------------------------------------------------- bounds
NumWorkers == 2         \* worker threads of the pool
MaxTasks == 3           \* task instances created in one behaviour of the pool
SpinTasks == 2          \* task instances created in one behaviour of the spin loop
MaxSpin == 2            \* largest argument given to set_max_inplace_spin
MaxOps == 2             \* Handle operations of one closure invocation, spin loop
PoolOps == 1            \* Handle operations of one closure invocation, pool
MaxBatch == 2           \* largest batch steal_batch_and_pop moves
MaxRemotes == 2         \* Remote handles created by Handle::to_owned
MaxK == 3               \* largest target of the counting closure
UsizeMax == 7           \* largest value of the (narrowed) usize tried_times

\* ------------------------------------------------------ program constants
DefaultSpin == 4        \* RunnerFactory::new

Workers == 1..NumWorkers
TaskIds == 1..(IF MaxTasks > SpinTasks THEN MaxTasks ELSE SpinTasks)
Spins == 0..MaxSpin
Budgets == Spins \cup {DefaultSpin}
Ks == (1..MaxK) \cup {10}

NoTask == [id |-> 0, kind |-> "None", slot |-> FALSE, prog |-> "none", goal |-> 0,
           cnt |-> 0, req |-> 0]
NoRunner == -1

\* The closures given to spawn_once and spawn_mut, by what they do with their Handle:
\*   "always"  calls rerun in every invocation
\*   "never"   never calls rerun
\*   "count"   cnt += 1; if cnt < goal { h.rerun() }
\*   "any"     calls rerun or not, freely
Closure(p, g) == [prog |-> p, goal |-> g]
AnyClosure == Closure("any", 0)
MutClosures ==
    {Closure(p, 0) : p \in {"always", "never", "any"}} \cup {Closure("count", g) : g \in Ks}
OnceClosures == {AnyClosure}

VARIABLES
    factory,    \* RunnerFactory.max_inplace_spin
    configured, \* set_max_inplace_spin has been called
    runner,     \* Runner.max_inplace_spin of each worker's Runner, NoRunner before produce
    queue,      \* SingleQueue: the shared injector
    local,      \* each worker's local queue
    pc,         \* each worker's position: "init", "idle", "run", "ret", "panicked"
    cur,        \* the task a worker's handle call owns
    rerun,      \* Handle.rerun of the worker's handle call
    tried,      \* tried_times of the worker's handle call
    ret,        \* outcome of the handle call the worker has just left
    ops,        \* Handle operations done by the running closure invocation
    did,        \* their names, in the order the closure called them
    remotes,    \* Remote handles in existence: <<number, task whose closure made it>>
    nextId,     \* identity given to the next task instance
    quota,      \* task instances the behaviour may still create
    inv,        \* closure invocations of the worker's handle call
    startFlag,  \* Handle.rerun as the running closure invocation found it
    last,       \* the task of the worker's handle call, as handle received it
    runs,       \* closure invocations of each task: 0, 1, 2 = more than one
    fate,       \* "none" (not spawned), "live", "done" (handle returned true), "failed"
    origin,     \* how each task was spawned: "pool", "remote", "handle"
    parent,     \* the task whose closure spawned it, the Remote that did, 0 for the facade
    kinds,      \* the kind each task was spawned with
    late        \* the tasks spawned through a Remote after the handle call that made it

vars == <<factory, configured, runner, queue, local, pc, cur, rerun, tried, ret, ops, did,
          remotes, nextId, quota, inv, startFlag, last, runs, fate, origin, parent, kinds,
          late>>

Min(a, b) == IF a < b THEN a ELSE b

\* ------------------------------------------------------------------ Task
TaskOnce(id, c) ==
    [id |-> id, kind |-> "Once", slot |-> TRUE, prog |-> c.prog, goal |-> c.goal,
     cnt |-> 0, req |-> 0]

TaskMut(id, c) ==
    [id |-> id, kind |-> "Mut", slot |-> TRUE, prog |-> c.prog, goal |-> c.goal,
     cnt |-> 0, req |-> 0]

\* Task::Once(None): a run-once task whose slot is already empty
TaskOnceEmpty(id) ==
    [id |-> id, kind |-> "Once", slot |-> FALSE, prog |-> "any", goal |-> 0,
     cnt |-> 0, req |-> 0]

\* ----------------------------------------------------------- SingleQueue
\* the task is pushed twice
Push_Twice(q, t) == Append(Append(q, t), t)

Push(q, t) == Append(q, t)

\* PoolContext::spawn, Remote::spawn, ThreadPool::spawn: the task lands in the
\* backing queue
CtxSpawn(q, t) == Push(q, t)

\* the returned task stays in the injector
StealBatchAndPop_Peek(q, lq, n) ==
    [task |-> Head(q),
     local |-> lq \o SubSeq(q, 2, n),
     queue |-> SubSeq(q, n, Len(q))]

\* SingleQueue::steal_batch_and_pop: n tasks leave the injector, the first is
\* returned and the others go to the caller's local queue
StealBatchAndPop(q, lq, n) ==
    [task |-> Head(q),
     local |-> lq \o SubSeq(q, 2, n),
     queue |-> SubSeq(q, n + 1, Len(q))]

\* --------------------------------------------------------- RunnerFactory
\* the Runners share the factory's field instead of copying it
SetMaxInplaceSpin_Shared(count) ==
    /\ factory' = count
    /\ configured' = TRUE
    /\ runner' = [w \in Workers |-> IF runner[w] = NoRunner THEN NoRunner ELSE count]
    /\ UNCHANGED <<queue, local, pc, cur, rerun, tried, ret, ops, did, remotes,
                   nextId, quota, inv, startFlag, last, runs, fate, origin, parent, kinds, late>>

SetMaxInplaceSpin(count) ==
    /\ factory' = count
    /\ configured' = TRUE
    /\ UNCHANGED <<runner, queue, local, pc, cur, rerun, tried, ret, ops, did, remotes,
                   nextId, quota, inv, startFlag, last, runs, fate, origin, parent, kinds, late>>

\* RunnerFactory::produce: the budget the new Runner carries
ProducedBudget(f) == f

Produce(w) ==
    /\ pc[w] = "init"
    /\ runner' = [runner EXCEPT ![w] = ProducedBudget(factory)]
    /\ pc' = [pc EXCEPT ![w] = "idle"]
    /\ UNCHANGED <<factory, configured, queue, local, cur, rerun, tried, ret, ops, did, remotes,
                   nextId, quota, inv, startFlag, last, runs, fate, origin, parent, kinds, late>>

\* ------------------------------------------------- spawning from outside
\* bookkeeping of a new task instance
Born(how, by, kind) ==
    /\ quota > 0
    /\ quota' = quota - 1
    /\ nextId' = nextId + 1
    /\ fate' = [fate EXCEPT ![nextId] = "live"]
    /\ origin' = [origin EXCEPT ![nextId] = how]
    /\ parent' = [parent EXCEPT ![nextId] = by]
    /\ kinds' = [kinds EXCEPT ![nextId] = kind]

PoolSpawnOnce(c) ==
    /\ Born("pool", 0, "Once")
    /\ queue' = CtxSpawn(queue, TaskOnce(nextId, c))
    /\ UNCHANGED <<factory, configured, runner, local, pc, cur, rerun, tried, ret, ops, did,
                   remotes, inv, startFlag, last, runs, late>>

PoolSpawnMut(c) ==
    /\ Born("pool", 0, "Mut")
    /\ queue' = CtxSpawn(queue, TaskMut(nextId, c))
    /\ UNCHANGED <<factory, configured, runner, local, pc, cur, rerun, tried, ret, ops, did,
                   remotes, inv, startFlag, last, runs, late>>

\* ThreadPool::spawn(Task::Once(None)): the enum and its slot are public
PoolSpawnEmpty ==
    /\ Born("pool", 0, "Once")
    /\ queue' = CtxSpawn(queue, TaskOnceEmpty(nextId))
    /\ UNCHANGED <<factory, configured, runner, local, pc, cur, rerun, tried, ret, ops, did,
                   remotes, inv, startFlag, last, runs, late>>

\* the handle call whose closure made the Remote has returned
MadeEarlier(r) == \A w \in Workers : cur[w].id # r[2]

RemoteSpawnOnce(r, c) ==
    /\ r \in remotes
    /\ Born("remote", r[1], "Once")
    /\ late' = IF MadeEarlier(r) THEN late \cup {nextId} ELSE late
    /\ queue' = CtxSpawn(queue, TaskOnce(nextId, c))
    /\ UNCHANGED <<factory, configured, runner, local, pc, cur, rerun, tried, ret, ops, did,
                   remotes, inv, startFlag, last, runs>>

\* the closure is wrapped as the other kind of task
RemoteSpawnMut_AsOnce(r, c) ==
    /\ r \in remotes
    /\ Born("remote", r[1], "Mut")
    /\ late' = IF MadeEarlier(r) THEN late \cup {nextId} ELSE late
    /\ queue' = CtxSpawn(queue, TaskOnce(nextId, c))
    /\ UNCHANGED <<factory, configured, runner, local, pc, cur, rerun, tried, ret, ops, did,
                   remotes, inv, startFlag, last, runs>>

RemoteSpawnMut(r, c) ==
    /\ r \in remotes
    /\ Born("remote", r[1], "Mut")
    /\ late' = IF MadeEarlier(r) THEN late \cup {nextId} ELSE late
    /\ queue' = CtxSpawn(queue, TaskMut(nextId, c))
    /\ UNCHANGED <<factory, configured, runner, local, pc, cur, rerun, tried, ret, ops, did,
                   remotes, inv, startFlag, last, runs>>

\* ---------------------------------------------------------- Runner::handle
Sat(n) == Min(n + 1, 2)

\* the closure is called: r(&mut handle)
Called(t) == IF t.prog = "count" THEN [t EXCEPT !.cnt = t.cnt + 1] ELSE t

\* r.take(): the slot of a run-once task is emptied
Take(t) == [t EXCEPT !.slot = FALSE]

\* an empty slot is skipped: if let Some(f) = r.take() { f(&mut handle) }
Enter_SkipEmpty(t) ==
    IF t.kind = "Once"
    THEN IF t.slot THEN [out |-> "run", task |-> Take(t)]
                   ELSE [out |-> "true", task |-> t]
    ELSE [out |-> "run", task |-> Called(t)]

\* the start of handle, up to the first call of the closure:
\*   "run"    the closure is running        "panic"  unwrap() of an empty slot
Enter(t) ==
    IF t.kind = "Once"
    THEN IF t.slot THEN [out |-> "run", task |-> Take(t)]
                   ELSE [out |-> "panic", task |-> t]
    ELSE [out |-> "run", task |-> Called(t)]

\* let mut handle = Handle { ctx, rerun: false }
NewHandleFlag == FALSE

\* worker w calls handle(ctx, t)
StartHandle(w, t) ==
    LET e == Enter(t) IN
    /\ rerun' = [rerun EXCEPT ![w] = NewHandleFlag]
    /\ tried' = [tried EXCEPT ![w] = 0]
    /\ ops' = [ops EXCEPT ![w] = 0]
    /\ did' = [did EXCEPT ![w] = <<>>]
    /\ last' = [last EXCEPT ![w] = t]
    /\ startFlag' = [startFlag EXCEPT ![w] = NewHandleFlag]
    /\ IF e.out = "run"
       THEN /\ pc' = [pc EXCEPT ![w] = "run"]
            /\ cur' = [cur EXCEPT ![w] = e.task]
            /\ inv' = [inv EXCEPT ![w] = 1]
            /\ runs' = [runs EXCEPT ![t.id] = Sat(runs[t.id])]
            /\ UNCHANGED <<ret, fate>>
       ELSE /\ pc' = [pc EXCEPT ![w] = IF e.out = "panic" THEN "panicked" ELSE "ret"]
            /\ ret' = [ret EXCEPT ![w] = e.out]
            /\ fate' = [fate EXCEPT ![t.id] = IF e.out = "panic" THEN "failed" ELSE "done"]
            /\ cur' = [cur EXCEPT ![w] = NoTask]
            /\ inv' = [inv EXCEPT ![w] = 0]
            /\ UNCHANGED runs

\* -------------------------------------------------- the scheduling loop
\* a worker takes its next task from its local queue and hands it to its Runner
PopLocal(w) ==
    /\ pc[w] = "idle"
    /\ local[w] # <<>>
    /\ local' = [local EXCEPT ![w] = Tail(local[w])]
    /\ StartHandle(w, Head(local[w]))
    /\ UNCHANGED <<factory, configured, runner, queue, remotes, nextId, quota,
                   origin, parent, kinds, late>>

\* its local queue is empty: it takes a batch from the injector
Steal(w) ==
    /\ pc[w] = "idle"
    /\ local[w] = <<>>
    /\ queue # <<>>
    /\ \E n \in 1..Min(Len(queue), MaxBatch) :
         LET s == StealBatchAndPop(queue, local[w], n) IN
         /\ local' = [local EXCEPT ![w] = s.local]
         /\ queue' = s.queue
         /\ StartHandle(w, s.task)
    /\ UNCHANGED <<factory, configured, runner, remotes, nextId, quota,
                   origin, parent, kinds, late>>

\* it takes the result of handle and goes on to the next task
Loop(w) ==
    /\ pc[w] = "ret"
    /\ pc' = [pc EXCEPT ![w] = "idle"]
    /\ ret' = [ret EXCEPT ![w] = "none"]
    /\ inv' = [inv EXCEPT ![w] = 0]
    /\ last' = [last EXCEPT ![w] = NoTask]
    /\ rerun' = [rerun EXCEPT ![w] = FALSE]
    /\ UNCHANGED <<factory, configured, runner, queue, local, cur, tried, ops, did, remotes,
                   nextId, quota, startFlag, runs, fate, origin, parent, kinds, late>>

\* ---------------------------------------------------------------- Handle
\* (m: the Handle operations the closure invocation performs at most)
\* Handle::rerun
\* the flag is flipped instead of set
Rerun_Toggle(flag) == ~flag

Rerun(flag) == TRUE

\* a closure of this kind may call h.rerun() in this invocation
MayRerun(t) ==
    \/ t.prog \in {"always", "any"}
    \/ t.prog = "count" /\ t.cnt < t.goal

\* a closure of this kind may return with the flag as it is
MayReturn(t, flag) ==
    /\ t.prog = "always" => flag
    /\ t.prog = "never" => ~flag
    /\ t.prog = "count" => (flag <=> t.cnt < t.goal)

HandleRerun(w, m) ==
    /\ pc[w] = "run"
    /\ ops[w] < m
    /\ MayRerun(cur[w])
    /\ rerun' = [rerun EXCEPT ![w] = Rerun(rerun[w])]
    /\ ops' = [ops EXCEPT ![w] = ops[w] + 1]
    /\ did' = [did EXCEPT ![w] = Append(did[w], "rerun")]
    /\ UNCHANGED <<factory, configured, runner, queue, local, pc, cur, tried, ret, remotes,
                   nextId, quota, inv, startFlag, last, runs, fate, origin, parent, kinds, late>>

\* the spawned closure is kept back instead of being pushed
HandleSpawnOnce_Deferred(w, c, m) ==
    /\ pc[w] = "run"
    /\ ops[w] < m
    /\ Born("handle", cur[w].id, "Once")
    /\ queue' = queue
    /\ ops' = [ops EXCEPT ![w] = ops[w] + 1]
    /\ did' = [did EXCEPT ![w] = Append(did[w], "spawn_once")]
    /\ UNCHANGED <<factory, configured, runner, local, pc, cur, rerun, tried, ret, remotes,
                   inv, startFlag, last, runs, late>>

HandleSpawnOnce(w, c, m) ==
    /\ pc[w] = "run"
    /\ ops[w] < m
    /\ Born("handle", cur[w].id, "Once")
    /\ queue' = CtxSpawn(queue, TaskOnce(nextId, c))
    /\ ops' = [ops EXCEPT ![w] = ops[w] + 1]
    /\ did' = [did EXCEPT ![w] = Append(did[w], "spawn_once")]
    /\ UNCHANGED <<factory, configured, runner, local, pc, cur, rerun, tried, ret, remotes,
                   inv, startFlag, last, runs, late>>

HandleSpawnMut(w, c, m) ==
    /\ pc[w] = "run"
    /\ ops[w] < m
    /\ Born("handle", cur[w].id, "Mut")
    /\ queue' = CtxSpawn(queue, TaskMut(nextId, c))
    /\ ops' = [ops EXCEPT ![w] = ops[w] + 1]
    /\ did' = [did EXCEPT ![w] = Append(did[w], "spawn_mut")]
    /\ UNCHANGED <<factory, configured, runner, local, pc, cur, rerun, tried, ret, remotes,
                   inv, startFlag, last, runs, late>>

HandleToOwned(w, m) ==
    /\ pc[w] = "run"
    /\ ops[w] < m
    /\ Cardinality(remotes) < MaxRemotes
    /\ remotes' = remotes \cup {<<Cardinality(remotes) + 1, cur[w].id>>}
    /\ ops' = [ops EXCEPT ![w] = ops[w] + 1]
    /\ did' = [did EXCEPT ![w] = Append(did[w], "to_owned")]
    /\ UNCHANGED <<factory, configured, runner, queue, local, pc, cur, rerun, tried, ret,
                   nextId, quota, inv, startFlag, last, runs, fate, origin, parent, kinds, late>>

\* tried_times += 1 on the narrowed usize
Inc(n) == (n + 1) % (UsizeMax + 1)

\* tried_times is compared with the budget before it is incremented
Decide_CompareFirst(t, flag, n, budget) ==
    IF t.kind = "Once" THEN [out |-> "true", rerun |-> flag, tried |-> n]
    ELSE IF ~flag THEN [out |-> "true", rerun |-> flag, tried |-> n]
    ELSE IF n = budget THEN [out |-> "false", rerun |-> FALSE, tried |-> Inc(n)]
    ELSE [out |-> "loop", rerun |-> FALSE, tried |-> Inc(n)]

\* the loop has no early return: it spins until the budget is used up
Decide_NoEarlyReturn(t, flag, n, budget) ==
    IF t.kind = "Once" THEN [out |-> "true", rerun |-> flag, tried |-> n]
    ELSE IF Inc(n) = budget
         THEN [out |-> IF flag THEN "false" ELSE "true", rerun |-> FALSE, tried |-> Inc(n)]
         ELSE [out |-> "loop", rerun |-> FALSE, tried |-> Inc(n)]

\* the run-once arm honours the rerun flag like the run-repeatable arm
Decide_OnceReruns(t, flag, n, budget) ==
    IF ~flag THEN [out |-> "true", rerun |-> flag, tried |-> n]
    ELSE IF Inc(n) = budget THEN [out |-> "false", rerun |-> FALSE, tried |-> Inc(n)]
    ELSE [out |-> "loop", rerun |-> FALSE, tried |-> Inc(n)]

\* the loop breaks one invocation early
Decide_BreakEarly(t, flag, n, budget) ==
    IF t.kind = "Once" THEN [out |-> "true", rerun |-> flag, tried |-> n]
    ELSE IF ~flag THEN [out |-> "true", rerun |-> flag, tried |-> n]
    ELSE IF Inc(Inc(n)) >= budget THEN [out |-> "false", rerun |-> FALSE, tried |-> Inc(n)]
    ELSE [out |-> "loop", rerun |-> FALSE, tried |-> Inc(n)]

\* return true is missing from the run-once arm: it falls through to ctx.spawn
Decide_OnceFallsThrough(t, flag, n, budget) ==
    IF t.kind = "Once" THEN [out |-> "false", rerun |-> flag, tried |-> n]
    ELSE IF ~flag THEN [out |-> "true", rerun |-> flag, tried |-> n]
    ELSE IF Inc(n) = budget THEN [out |-> "false", rerun |-> FALSE, tried |-> Inc(n)]
    ELSE [out |-> "loop", rerun |-> FALSE, tried |-> Inc(n)]

\* handle.rerun = false is missing from the loop
Decide_NoReset(t, flag, n, budget) ==
    IF t.kind = "Once" THEN [out |-> "true", rerun |-> flag, tried |-> n]
    ELSE IF ~flag THEN [out |-> "true", rerun |-> flag, tried |-> n]
    ELSE IF Inc(n) = budget THEN [out |-> "false", rerun |-> flag, tried |-> Inc(n)]
    ELSE [out |-> "loop", rerun |-> flag, tried |-> Inc(n)]

\* the budget is compared before the flag is looked at
Decide_BudgetFirst(t, flag, n, budget) ==
    IF t.kind = "Once" THEN [out |-> "true", rerun |-> flag, tried |-> n]
    ELSE IF Inc(n) = budget THEN [out |-> "false", rerun |-> FALSE, tried |-> Inc(n)]
    ELSE IF ~flag THEN [out |-> "true", rerun |-> flag, tried |-> n]
    ELSE [out |-> "loop", rerun |-> FALSE, tried |-> Inc(n)]

\* what handle does when the closure has returned:
\*   "true"  return true        "false"  ctx.spawn(task); false
\*   "loop"  the closure is called again
Decide(t, flag, n, budget) ==
    IF t.kind = "Once" THEN [out |-> "true", rerun |-> flag, tried |-> n]
    ELSE IF ~flag THEN [out |-> "true", rerun |-> flag, tried |-> n]
    ELSE IF Inc(n) = budget THEN [out |-> "false", rerun |-> FALSE, tried |-> Inc(n)]
    ELSE [out |-> "loop", rerun |-> FALSE, tried |-> Inc(n)]

\* the task as ctx.spawn(task) gives it back to the pool
Requeued(t) == [t EXCEPT !.req = IF t.prog = "count" THEN t.req + 1 ELSE t.req]

\* handle is left: the task and the loop's locals are gone, the flag as handle
\* left it stays to be seen until the worker goes on
Left(w, out) ==
    /\ pc' = [pc EXCEPT ![w] = IF out = "panic" THEN "panicked" ELSE "ret"]
    /\ ret' = [ret EXCEPT ![w] = out]
    /\ cur' = [cur EXCEPT ![w] = NoTask]
    /\ tried' = [tried EXCEPT ![w] = 0]
    /\ ops' = [ops EXCEPT ![w] = 0]
    /\ did' = [did EXCEPT ![w] = <<>>]
    /\ startFlag' = [startFlag EXCEPT ![w] = FALSE]

\* the closure body runs to its end and handle goes on
ClosureReturn(w) ==
    /\ pc[w] = "run"
    /\ MayReturn(cur[w], rerun[w])
    /\ LET d == Decide(cur[w], rerun[w], tried[w], runner[w]) IN
       \/ /\ d.out = "true"
          /\ Left(w, "true")
          /\ fate' = [fate EXCEPT ![cur[w].id] = "done"]
          /\ UNCHANGED <<queue, rerun, inv, runs>>
       \/ /\ d.out = "false"
          /\ queue' = CtxSpawn(queue, Requeued(cur[w]))
          /\ Left(w, "false")
          /\ rerun' = [rerun EXCEPT ![w] = d.rerun]
          /\ UNCHANGED <<inv, runs, fate>>
       \/ /\ d.out = "loop"
          /\ rerun' = [rerun EXCEPT ![w] = d.rerun]
          /\ tried' = [tried EXCEPT ![w] = d.tried]
          /\ ops' = [ops EXCEPT ![w] = 0]
          /\ did' = [did EXCEPT ![w] = <<>>]
          /\ cur' = [cur EXCEPT ![w] = Called(cur[w])]
          /\ inv' = [inv EXCEPT ![w] = inv[w] + 1]
          /\ startFlag' = [startFlag EXCEPT ![w] = d.rerun]
          /\ runs' = [runs EXCEPT ![cur[w].id] = Sat(runs[cur[w].id])]
          /\ UNCHANGED <<queue, pc, ret, fate>>
    /\ UNCHANGED <<factory, configured, runner, local, remotes, nextId, quota, last,
                   origin, parent, kinds, late>>

\* tried_times += 1 overflows in a build with overflow checks: handle panics
SpinOverflow(w) ==
    /\ pc[w] = "run"
    /\ MayReturn(cur[w], rerun[w])
    /\ cur[w].kind = "Mut"
    /\ rerun[w]
    /\ tried[w] = UsizeMax
    /\ Left(w, "panic")
    /\ fate' = [fate EXCEPT ![cur[w].id] = "failed"]
    /\ UNCHANGED <<factory, configured, runner, queue, local, rerun, remotes, nextId,
                   quota, inv, last, runs, origin, parent, kinds, late>>

\* the unwinding is caught and the task given back to the pool
ClosurePanic_Requeue(w) ==
    /\ pc[w] = "run"
    /\ Left(w, "panic")
    /\ queue' = CtxSpawn(queue, cur[w])
    /\ fate' = [fate EXCEPT ![cur[w].id] = "failed"]
    /\ UNCHANGED <<factory, configured, runner, local, rerun, remotes, nextId,
                   quota, inv, last, runs, origin, parent, kinds, late>>

\* the closure body panics: handle unwinds, the task is dropped
ClosurePanic(w) ==
    /\ pc[w] = "run"
    /\ Left(w, "panic")
    /\ fate' = [fate EXCEPT ![cur[w].id] = "failed"]
    /\ UNCHANGED <<factory, configured, runner, queue, local, rerun, remotes, nextId,
                   quota, inv, last, runs, origin, parent, kinds, late>>

\* ------------------------------------------------------------------ Init
\* the state after construction, with the factory configured to b and n task
\* instances to come
InitWith(b, n) ==
    /\ factory = b
    /\ configured = (b # DefaultSpin)
    /\ runner = [w \in Workers |-> NoRunner]
    /\ queue = <<>>
    /\ local = [w \in Workers |-> <<>>]
    /\ pc = [w \in Workers |-> "init"]
    /\ cur = [w \in Workers |-> NoTask]
    /\ rerun = [w \in Workers |-> FALSE]
    /\ tried = [w \in Workers |-> 0]
    /\ ret = [w \in Workers |-> "none"]
    /\ ops = [w \in Workers |-> 0]
    /\ did = [w \in Workers |-> <<>>]
    /\ remotes = {}
    /\ nextId = 1
    /\ quota = n
    /\ inv = [w \in Workers |-> 0]
    /\ startFlag = [w \in Workers |-> FALSE]
    /\ last = [w \in Workers |-> NoTask]
    /\ runs = [i \in TaskIds |-> 0]
    /\ fate = [i \in TaskIds |-> "none"]
    /\ origin = [i \in TaskIds |-> "none"]
    /\ parent = [i \in TaskIds |-> 0]
    /\ kinds = [i \in TaskIds |-> "None"]
    /\ late = {}

\* -------------------------------------------------------- specifications
\* Spec: the bounded spin of handle, driven by one worker thread. Tasks come
\* from the pool facade, their closures only use rerun; every budget and every
\* counting target.
Driver == CHOOSE w \in Workers : \A v \in Workers : w <= v

Init == \E b \in Budgets : InitWith(b, SpinTasks)

Next ==
    \/ \E w \in {Driver} : Produce(w)
    \/ \E c \in OnceClosures : PoolSpawnOnce(c)
    \/ \E c \in MutClosures : PoolSpawnMut(c)
    \/ PoolSpawnEmpty
    \/ \E w \in {Driver} : PopLocal(w)
    \/ \E w \in {Driver} : Steal(w)
    \/ \E w \in {Driver} : Loop(w)
    \/ \E w \in {Driver} : HandleRerun(w, MaxOps)
    \/ \E w \in {Driver} : ClosureReturn(w)
    \/ \E w \in {Driver} : SpinOverflow(w)

Spec == Init /\ [][Next]_vars

\* SpecPool: the pool at work with the default budget. Tasks come from the
\* facade, from Remote handles and from running closures.
PoolClosures == {AnyClosure}

InitPool == InitWith(DefaultSpin, MaxTasks)

NextPool ==
    \/ \E w \in Workers : Produce(w)
    \/ \E c \in PoolClosures : PoolSpawnOnce(c)
    \/ \E c \in PoolClosures : PoolSpawnMut(c)
    \/ \E r \in remotes, c \in PoolClosures : RemoteSpawnOnce(r, c)
    \/ \E r \in remotes, c \in PoolClosures : RemoteSpawnMut(r, c)
    \/ \E w \in Workers : PopLocal(w)
    \/ \E w \in Workers : Steal(w)
    \/ \E w \in Workers : Loop(w)
    \/ \E w \in Workers : HandleRerun(w, PoolOps)
    \/ \E w \in Workers, c \in PoolClosures : HandleSpawnOnce(w, c, PoolOps)
    \/ \E w \in Workers, c \in PoolClosures : HandleSpawnMut(w, c, PoolOps)
    \/ \E w \in Workers : HandleToOwned(w, PoolOps)
    \/ \E w \in Workers : ClosureReturn(w)

SpecPool == InitPool /\ [][NextPool]_vars

\* SpecFactory: the factory is configured while Runners are produced and at
\* work on a task that always requests rerun.
InitFactory == InitWith(DefaultSpin, 1)

NextFactory ==
    \/ \E c \in Budgets : SetMaxInplaceSpin(c)
    \/ \E w \in Workers : Produce(w)
    \/ PoolSpawnMut(Closure("always", 0))
    \/ \E w \in Workers : Steal(w)
    \/ \E w \in Workers : Loop(w)
    \/ \E w \in Workers : HandleRerun(w, 1)
    \/ \E w \in Workers : ClosureReturn(w)

SpecFactory == InitFactory /\ [][NextFactory]_vars

\* SpecLive: run-once tasks that spawn run-once tasks, under a fair scheduling
\* loop: the first worker is started, every started worker keeps taking tasks
\* and every closure returns.
NextLive ==
    \/ \E w \in Workers : Produce(w)
    \/ PoolSpawnOnce(AnyClosure)
    \/ \E w \in Workers : PopLocal(w)
    \/ \E w \in Workers : Steal(w)
    \/ \E w \in Workers : Loop(w)
    \/ \E w \in Workers : HandleSpawnOnce(w, AnyClosure, PoolOps)
    \/ \E w \in Workers : ClosureReturn(w)

WorkerStep(w) == PopLocal(w) \/ Steal(w) \/ Loop(w) \/ ClosureReturn(w)

SpecLive ==
    /\ InitPool
    /\ [][NextLive]_vars
    /\ WF_vars(Produce(Driver))
    /\ \A w \in Workers : WF_vars(WorkerStep(w))

\* SpecYield: one worker under a fair scheduling loop over the FIFO reference
\* queue, a run-repeatable task that requests rerun at every invocation among
\* run-once tasks, every budget set_max_inplace_spin accepts. Every closure
\* runs on and returns, the worker keeps taking tasks.
InitYield == \E b \in Budgets : InitWith(b, SpinTasks)

NextYield ==
    \/ Produce(Driver)
    \/ PoolSpawnOnce(AnyClosure)
    \/ PoolSpawnMut(Closure("always", 0))
    \/ PopLocal(Driver)
    \/ Steal(Driver)
    \/ Loop(Driver)
    \/ HandleRerun(Driver, 1)
    \/ ClosureReturn(Driver)
    \/ SpinOverflow(Driver)

YieldStep(w) == WorkerStep(w) \/ HandleRerun(w, 1) \/ SpinOverflow(w)

SpecYield ==
    /\ InitYield
    /\ [][NextYield]_vars
    /\ WF_vars(Produce(Driver))
    /\ WF_vars(YieldStep(Driver))

\* SpecHandle: one worker running closures that use every operation of the
\* Execution Handle, up to MaxOps times in one invocation, and may panic at any
\* point of their body.
InitHandle == InitWith(DefaultSpin, SpinTasks)

NextHandle ==
    \/ Produce(Driver)
    \/ PoolSpawnOnce(AnyClosure)
    \/ PoolSpawnMut(AnyClosure)
    \/ PopLocal(Driver)
    \/ Steal(Driver)
    \/ Loop(Driver)
    \/ HandleRerun(Driver, MaxOps)
    \/ HandleSpawnOnce(Driver, AnyClosure, MaxOps)
    \/ HandleSpawnMut(Driver, AnyClosure, MaxOps)
    \/ HandleToOwned(Driver, MaxOps)
    \/ ClosureReturn(Driver)
    \/ ClosurePanic(Driver)

SpecHandle == InitHandle /\ [][NextHandle]_vars

\* ------------------------------------------------------------- properties
\* where a task instance is: <<0, i>> slot i of the injector, <<w, i>> slot i of
\* worker w's local queue, <<w, 0>> owned by worker w's handle call
Places(id) ==
    {<<0, i>> : i \in {j \in DOMAIN queue : queue[j].id = id}}
    \cup UNION {{<<w, i>> : i \in {j \in DOMAIN local[w] : local[w][j].id = id}} : w \in Workers}
    \cup {<<w, 0>> : w \in {v \in Workers : cur[v].id = id}}

\* the slots of the queues that hold the task instance
Queued(id) == {pl \in Places(id) : pl[2] > 0}

\* handle(ctx, t) was called by worker w with a closure of this kind
Handling(w, kind, prog) == last[w].kind = kind /\ last[w].prog = prog

CeilDiv(a, b) == (a + b - 1) \div b

\* C1: with a budget b >= 1, a handle call on a run-repeatable task whose closure
\* always requests rerun calls the closure exactly b times (never more while it
\* runs), then pushes the task back exactly once and returns false; it ends in
\* no other way.
C1_AlwaysRerunSpinsBudget ==
    \A w \in Workers :
        (Handling(w, "Mut", "always") /\ runner[w] >= 1) =>
            /\ pc[w] \in {"run", "ret"}
            /\ pc[w] = "run" => inv[w] <= runner[w] /\ Queued(last[w].id) = {}
            /\ pc[w] = "ret" =>
                 /\ ret[w] = "false"
                 /\ inv[w] = runner[w]
                 /\ Cardinality(Queued(last[w].id)) = 1
                 /\ fate[last[w].id] = "live"

C1_Witness ==
    \E w \in Workers :
        /\ Handling(w, "Mut", "always") /\ pc[w] = "ret"
        /\ runner[w] = DefaultSpin /\ inv[w] = DefaultSpin /\ ret[w] = "false"
        /\ Cardinality(Queued(last[w].id)) = 1

\* C2: for every budget, a handle call on a run-repeatable task whose closure
\* never requests rerun calls the closure exactly once, returns true and does
\* not push the task back.
C2_NeverRerunCompletes ==
    \A w \in Workers :
        Handling(w, "Mut", "never") =>
            /\ pc[w] \in {"run", "ret"}
            /\ inv[w] = 1
            /\ Queued(last[w].id) = {}
            /\ pc[w] = "ret" => ret[w] = "true" /\ fate[last[w].id] = "done"

C2_Witness ==
    \E w \in Workers :
        /\ Handling(w, "Mut", "never") /\ pc[w] = "ret"
        /\ runner[w] = 0 /\ inv[w] = 1 /\ ret[w] = "true"

\* C3: a handle call on a run-once task (slot full) calls the closure exactly
\* once, returns true and never pushes the task back, whether or not the closure
\* called rerun; no run-once closure is ever called more than once.
C3_OnceRunsOnce ==
    /\ \A w \in Workers :
         (last[w].kind = "Once" /\ last[w].slot) =>
            /\ pc[w] \in {"run", "ret"}
            /\ inv[w] = 1
            /\ Queued(last[w].id) = {}
            /\ pc[w] = "ret" => ret[w] = "true" /\ fate[last[w].id] = "done"
    /\ \A id \in TaskIds :
         kinds[id] = "Once" =>
            /\ runs[id] <= 1
            /\ fate[id] = "done" => runs[id] = 1 /\ Places(id) = {}

C3_Witness ==
    \E w \in Workers :
        /\ last[w].kind = "Once" /\ last[w].slot /\ pc[w] = "ret"
        /\ rerun[w] /\ ret[w] = "true" /\ runs[last[w].id] = 1

\* C4: a handle call on a run-once task whose slot is empty fails fatally: no
\* closure is called, handle returns no value, nothing is pushed into the pool.
C4_EmptyOnceIsFatal ==
    \A w \in Workers :
        (last[w].kind = "Once" /\ ~last[w].slot) =>
            /\ pc[w] = "panicked"
            /\ ret[w] = "panic"
            /\ inv[w] = 0
            /\ runs[last[w].id] = 0
            /\ Places(last[w].id) = {}
            /\ fate[last[w].id] = "failed"

C4_Witness ==
    \E w \in Workers :
        /\ last[w].kind = "Once" /\ ~last[w].slot
        /\ pc[w] = "panicked" /\ ret[w] = "panic" /\ inv[w] = 0

\* C7: with a budget b >= 1, the counting closure with target g is called
\* Min(b, g - cnt) times by every handle call, which returns false exactly when
\* the target is not reached; before a call the task was re-enqueued cnt / b
\* times, so it completes with counter g after CeilDiv(g, b) - 1 re-enqueues.
C7_CountingTask ==
    \A w \in Workers :
        (Handling(w, "Mut", "count") /\ runner[w] >= 1 /\ pc[w] = "ret") =>
            LET t == last[w]
                b == runner[w]
            IN /\ t.cnt = t.req * b
               /\ inv[w] = Min(b, t.goal - t.cnt)
               /\ ret[w] = (IF t.cnt + inv[w] = t.goal THEN "true" ELSE "false")
               /\ ret[w] = "true" =>
                    /\ t.req = CeilDiv(t.goal, b) - 1
                    /\ Places(t.id) = {}
               /\ ret[w] = "false" =>
                    \E pl \in Queued(t.id) :
                        /\ Cardinality(Queued(t.id)) = 1
                        /\ LET q == IF pl[1] = 0 THEN queue[pl[2]] ELSE local[pl[1]][pl[2]]
                           IN q.cnt = t.cnt + b /\ q.req = t.req + 1

C7_Witness ==
    \E w \in Workers :
        /\ Handling(w, "Mut", "count") /\ pc[w] = "ret" /\ ret[w] = "true"
        /\ runner[w] = 4 /\ last[w].goal = 10
        /\ last[w].req = 2 /\ last[w].cnt = 8 /\ inv[w] = 2

\* C10: every closure invocation, the first of a handle call and every in-place
\* re-invocation, starts with the rerun flag false: until the closure calls
\* rerun in this invocation the flag is false.
C10_FlagFreshEachInvocation ==
    \A w \in Workers :
        pc[w] = "run" =>
            /\ ~startFlag[w]
            /\ ops[w] = 0 => ~rerun[w]

C10_Witness ==
    \E w \in Workers :
        /\ pc[w] = "run" /\ inv[w] = 2 /\ ops[w] = 0
        /\ ~rerun[w] /\ last[w].prog = "any"

\* C5: every task instance that is alive is in exactly one place, a slot of one
\* queue or the handle call of one worker, and a finished or dropped one is
\* nowhere: no two handle calls own the same task.
C5_OnePlacePerTask ==
    /\ \A id \in TaskIds :
         Cardinality(Places(id)) = (IF fate[id] = "live" THEN 1 ELSE 0)
    /\ \A w \in Workers : pc[w] = "run" <=> cur[w] # NoTask
    /\ \A w, v \in Workers : (w # v /\ pc[w] = "run" /\ pc[v] = "run") => cur[w].id # cur[v].id

C5_Witness ==
    \E w, v \in Workers :
        /\ w # v
        /\ pc[w] = "ret" /\ ret[w] = "false"
        /\ pc[v] = "run" /\ cur[v].id = last[w].id

\* C6: of the tasks spawned through Remote handles none is lost and none is
\* duplicated: each is waiting in exactly one queue slot and was not run, or
\* was taken by a worker; a run-once one is taken and run exactly once.
RemoteTasks == {id \in TaskIds : origin[id] = "remote"}

C6_RemoteSpawnsConserved ==
    /\ Cardinality(RemoteTasks) <= nextId - 1
    /\ \A id \in RemoteTasks :
         /\ fate[id] # "none"
         /\ Cardinality(Places(id)) + (IF fate[id] \in {"done", "failed"} THEN 1 ELSE 0) = 1
         /\ runs[id] = 0 =>
              \A pl \in Places(id) :
                  /\ pl[2] > 0
                  /\ LET q == IF pl[1] = 0 THEN queue[pl[2]] ELSE local[pl[1]][pl[2]]
                     IN q.kind = kinds[id] /\ q.slot
         /\ Queued(id) = {} => runs[id] >= 1
         /\ (kinds[id] = "Once" /\ Queued(id) # {}) => runs[id] = 0
         /\ kinds[id] = "Once" => runs[id] <= 1

C6_Witness ==
    \E a, b \in RemoteTasks :
        /\ a # b /\ parent[a] # parent[b]
        /\ fate[a] = "done" /\ fate[b] = "done"
        /\ runs[a] >= 1 /\ runs[b] >= 1

\* C8: a Runner carries the budget the factory had when it was produced, 4 when
\* set_max_inplace_spin was never called, and keeps it whatever is configured
\* afterwards.
C8_ProducedBudgetFixed ==
    /\ [](~configured => \A w \in Workers : runner[w] \in {NoRunner, DefaultSpin})
    /\ [][\A w \in Workers :
            /\ runner[w] # NoRunner => runner'[w] = runner[w]
            /\ (runner[w] = NoRunner /\ runner'[w] # NoRunner) => runner'[w] = factory]_vars

C8_Witness ==
    \E w, v \in Workers :
        /\ runner[w] = DefaultSpin
        /\ configured /\ factory # DefaultSpin
        /\ runner[v] = factory
        /\ pc[w] = "ret" /\ inv[w] = DefaultSpin

FateOf(i) == IF i \in TaskIds THEN fate[i] ELSE "none"
RunsOf(i) == IF i \in TaskIds THEN runs[i] ELSE 0
KindOf(i) == IF i \in TaskIds THEN kinds[i] ELSE "None"

\* C9: when a run-once task spawns a run-once task through its Handle, both
\* closures are eventually run to completion, each exactly once.
C9_SpawnedOnceCompletes ==
    \A id \in TaskIds :
        (origin[id] = "handle" /\ kinds[id] = "Once") ~>
            (/\ fate[id] = "done" /\ runs[id] = 1
             /\ FateOf(parent[id]) = "done" /\ RunsOf(parent[id]) = 1)

C9_Witness ==
    \E id \in TaskIds :
        /\ origin[id] = "handle" /\ kinds[id] = "Once" /\ KindOf(parent[id]) = "Once"
        /\ fate[id] = "done" /\ runs[id] = 1
        /\ FateOf(parent[id]) = "done" /\ RunsOf(parent[id]) = 1

TypeOK ==
    /\ factory \in Budgets
    /\ \A w \in Workers : runner[w] \in Budgets \cup {NoRunner}
    /\ \A w \in Workers : tried[w] \in 0..UsizeMax
    /\ nextId - 1 \in TaskIds \cup {0}

\* ------------------------------------------------------------------- C11
\* the step at which a task spawned through the Execution Handle comes to be
BornByHandle(id) ==
    /\ fate[id] = "none"
    /\ fate'[id] = "live"
    /\ origin'[id] = "handle"

\* C11: a task spawned with Handle::spawn_once or Handle::spawn_mut is pushed
\* at the tail of the pool's queue in the very step of the call, while the
\* spawning task is still inside its closure invocation and its handle call
\* has not returned; so the spawning task has been invoked and the spawned
\* task is in the pool (or already taken from it) from then on, free to run
\* and finish on another worker before or after the spawning call returns.
C11_SpawnedDuringInvocation ==
    /\ [][\A id \in TaskIds : BornByHandle(id) =>
            /\ Len(queue') = Len(queue) + 1
            /\ SubSeq(queue', 1, Len(queue)) = queue
            /\ queue'[Len(queue')].id = id
            /\ \E w \in Workers :
                  /\ pc[w] = "run" /\ pc'[w] = "run"
                  /\ cur[w].id = parent'[id] /\ cur'[w] = cur[w]
                  /\ ret[w] = "none" /\ ret'[w] = "none"]_vars
    /\ [](\A id \in TaskIds : origin[id] = "handle" =>
            /\ RunsOf(parent[id]) >= 1
            /\ fate[id] = "live" => Places(id) # {})

\* both orders in one state: task p has completed while the task a it spawned
\* is still being run, and the task b that a spawned has completed on another
\* worker before a's handle call returned
C11_Witness ==
    \E a, b \in TaskIds : \E w \in Workers :
        /\ origin[a] = "handle" /\ origin[b] = "handle"
        /\ parent[b] = a /\ kinds[a] = "Once"
        /\ FateOf(parent[a]) = "done" /\ fate[a] = "live"
        /\ pc[w] = "run" /\ cur[w].id = a
        /\ fate[b] = "done"

\* ------------------------------------------------------------------- C12
\* the step at which a task spawned through a Remote comes to be
BornByRemote(id) ==
    /\ fate[id] = "none"
    /\ fate'[id] = "live"
    /\ origin'[id] = "remote"

\* what Handle::spawn_once / Handle::spawn_mut of closure c leaves in the queue
HandleWouldPush(q, id, kind, c) ==
    CtxSpawn(q, IF kind = "Once" THEN TaskOnce(id, c) ELSE TaskMut(id, c))

\* C12: a Remote never goes away, and a spawn_once or spawn_mut on it, whether
\* the handle call that made it is still running or has returned, adds exactly
\* one task of the kind of the method called at the tail of the same queue,
\* the queue the Execution Handle's spawn of the same closure would leave,
\* and touches no worker and no Remote.
C12_RemoteSpawnsLikeHandle ==
    /\ [][remotes \subseteq remotes']_vars
    /\ [][\A id \in TaskIds : BornByRemote(id) =>
            /\ \E c \in PoolClosures :
                  queue' = HandleWouldPush(queue, id, kinds'[id], c)
            /\ Len(queue') = Len(queue) + 1
            /\ queue'[Len(queue')].kind = kinds'[id]
            /\ queue'[Len(queue')].slot
            /\ UNCHANGED <<local, pc, cur, rerun, tried, ret, remotes>>]_vars

\* a run-repeatable task spawned through a Remote after the handle call that
\* made the Remote had returned has been run to completion
C12_Witness ==
    \E id \in late :
        /\ origin[id] = "remote"
        /\ kinds[id] = "Mut"
        /\ fate[id] = "done"

\* ------------------------------------------------------------------- C13
\* worker w is inside a handle call on a run-repeatable task, budget at least 1
SpinningMut(w) ==
    /\ pc[w] = "run"
    /\ cur[w].kind = "Mut"
    /\ runner[w] >= 1

\* C13: for a run-repeatable task, whatever its closure asks for, and a spin
\* budget b of at least 1, one handle call invokes the closure at least once
\* and at most b times. It returns false exactly when invocation number b
\* asked for a rerun, and has then pushed the task back exactly once; it
\* returns true exactly when an invocation did not ask for a rerun, and then
\* nothing is invoked after that invocation and the task is not pushed back;
\* it calls the closure again exactly when an invocation before number b asked
\* for a rerun.
C13_MutHandleOutcome ==
    /\ [](\A w \in Workers : SpinningMut(w) => inv[w] >= 1 /\ inv[w] <= runner[w])
    /\ [][\A w \in Workers : SpinningMut(w) /\ inv'[w] # inv[w] =>
            /\ pc'[w] = "run"
            /\ inv'[w] = inv[w] + 1
            /\ cur'[w].id = cur[w].id
            /\ rerun[w] /\ inv[w] < runner[w]
            /\ queue' = queue]_vars
    /\ [][\A w \in Workers : SpinningMut(w) /\ pc'[w] # "run" =>
            /\ pc'[w] = "ret"
            /\ inv'[w] = inv[w]
            /\ ret'[w] \in {"true", "false"}
            /\ ret'[w] = "false" <=> (rerun[w] /\ inv[w] = runner[w])
            /\ ret'[w] = "true" <=> ~rerun[w]
            /\ ret'[w] = "false" =>
                  /\ Len(queue') = Len(queue) + 1
                  /\ SubSeq(queue', 1, Len(queue)) = queue
                  /\ queue'[Len(queue')].id = cur[w].id
                  /\ queue'[Len(queue')].kind = "Mut"
                  /\ fate'[cur[w].id] = "live"
            /\ ret'[w] = "true" =>
                  /\ queue' = queue
                  /\ fate'[cur[w].id] = "done"]_vars

\* a closure that asked for a rerun until invocation number b, b at least 2,
\* and not on that one: handle returned true and the task is nowhere
C13_Witness ==
    \E w \in Workers :
        /\ pc[w] = "ret"
        /\ last[w].kind = "Mut" /\ last[w].prog = "any"
        /\ runner[w] >= 2
        /\ inv[w] = runner[w]
        /\ ret[w] = "true"
        /\ Places(last[w].id) = {}

\* ------------------------------------------------------------------- C14
\* C14, as stated: for every spin budget set_max_inplace_spin accepts, 0 and 1
\* included, a handle call on a run-repeatable task whose closure always
\* requests rerun makes at most budget invocations (the first one, which no
\* budget prevents, is granted to budget 0), then pushes the task back and
\* returns false; it does not end in a panic. Budget 0 violates it: the
\* counter is 1 when it is first compared and the loop goes on.
C14_SpinWithinEveryBudget ==
    \A w \in Workers :
        (Handling(w, "Mut", "always") /\ runner[w] # NoRunner) =>
            /\ pc[w] \in {"run", "ret"}
            /\ pc[w] = "run" => inv[w] <= (IF runner[w] = 0 THEN 1 ELSE runner[w])
            /\ pc[w] = "ret" => ret[w] = "false"

\* ------------------------------------------------------------------- C15
\* a run-once task waits in the pool while a task that requests rerun forever
\* is in it too
WaitsBesideSpinner(id) ==
    /\ kinds[id] = "Once"
    /\ fate[id] = "live"
    /\ \E s \in TaskIds : kinds[s] = "Mut" /\ fate[s] = "live"

\* C15, as stated: with a single worker, a fair scheduling loop and the FIFO
\* reference queue, a run-repeatable task that requests rerun forever does not
\* keep the worker to itself, whatever the spin budget: while a run-once task
\* waits in the queue, the handle call on the rerunning task makes at most
\* budget invocations (the first one, which no budget prevents, is granted to
\* budget 0) before it pushes the task back behind the waiting one and returns
\* false. Budget 0 violates it.
C15_YieldsWithinBudget ==
    \A id \in TaskIds :
        (WaitsBesideSpinner(id) /\ Queued(id) # {}) =>
            /\ pc[Driver] # "panicked"
            /\ (pc[Driver] = "run" /\ Handling(Driver, "Mut", "always")) =>
                  inv[Driver] <= (IF runner[Driver] = 0 THEN 1 ELSE runner[Driver])

\* the consequence C15 draws from it: every waiting run-once task is eventually
\* run to completion. With budget 0 and overflow checks the handle call ends in
\* a panic when the counter wraps, and the task waits for ever.
C15_OthersEventuallyRun ==
    \A id \in TaskIds : WaitsBesideSpinner(id) ~> fate[id] = "done"

\* with a spin budget of at least 1 it is: handle gives the rerunning task back
\* after budget invocations
C15_OthersRunWithPositiveBudget ==
    \A id \in TaskIds : (WaitsBesideSpinner(id) /\ factory >= 1) ~> fate[id] = "done"

\* ------------------------------------------------------------------- C16
\* the tasks spawned through the Execution Handle by task p
ChildrenOf(p) == {id \in TaskIds : origin[id] = "handle" /\ parent[id] = p}

\* C16: when a closure invocation panics inside handle, the step of the panic
\* pushes nothing and invokes nothing, handle yields no completion value and
\* the worker is left in the failure; from then on the task is in no queue and
\* in no handle call, its closure is not invoked again, and every task the
\* closure had spawned before it failed is still in the pool until it is run.
C16_PanicDropsTask ==
    /\ [](\A w \in Workers : pc[w] = "panicked" =>
            /\ ret[w] = "panic"
            /\ Places(last[w].id) = {}
            /\ fate[last[w].id] = "failed"
            /\ \A id \in ChildrenOf(last[w].id) :
                  fate[id] = "live" => Places(id) # {})
    /\ [][\A w \in Workers : (pc[w] = "run" /\ pc'[w] = "panicked") =>
            /\ queue' = queue /\ local' = local
            /\ runs' = runs /\ inv' = inv
            /\ ret'[w] = "panic"]_vars
    /\ [][\A w \in Workers : pc[w] = "panicked" =>
            /\ pc'[w] = "panicked"
            /\ ret'[w] = "panic"
            /\ runs'[last[w].id] = runs[last[w].id]]_vars

\* a run-repeatable closure panicked in its second invocation or later, after
\* it had spawned a task that is still waiting in the queue
C16_Witness ==
    \E w \in Workers : \E id \in ChildrenOf(last[w].id) :
        /\ pc[w] = "panicked"
        /\ last[w].kind = "Mut"
        /\ inv[w] >= 2
        /\ fate[id] = "live"
        /\ Queued(id) # {}

\* ------------------------------------------------------------------- C17
\* the closure run by worker w calls operation op of its Execution Handle
Calls(w, op) ==
    /\ pc[w] = "run"
    /\ Len(did'[w]) = Len(did[w]) + 1
    /\ did'[w][Len(did'[w])] = op

\* the closure run by worker w has called operation op in this invocation
HasCalled(w, op) == \E i \in DOMAIN did[w] : did[w][i] = op

\* one task of kind k and nothing else is added at the tail of the queue
OneMoreTask(k) ==
    /\ Len(queue') = Len(queue) + 1
    /\ SubSeq(queue', 1, Len(queue)) = queue
    /\ queue'[Len(queue')].kind = k
    /\ queue'[Len(queue')].id = nextId
    /\ nextId' = nextId + 1
    /\ local' = local

\* C17: Handle::rerun sets the rerun flag of its own invocation and changes no
\* queue, no task and no Remote; Handle::spawn_once and Handle::spawn_mut add
\* exactly one task of their kind and leave every flag as it is;
\* Handle::to_owned makes one Remote and changes neither flags nor queues. So
\* within an invocation the flag is set exactly when rerun has been called, once
\* or several times, and a run-repeatable closure that has not called rerun,
\* whatever it spawned, completes with handle returning true.
C17_HandleOpsAreIndependent ==
    /\ [][\A w \in Workers :
            /\ Calls(w, "rerun") =>
                  /\ rerun' = [rerun EXCEPT ![w] = TRUE]
                  /\ UNCHANGED <<queue, local, remotes, nextId, fate, cur, pc>>
            /\ Calls(w, "spawn_once") =>
                  /\ OneMoreTask("Once")
                  /\ UNCHANGED <<rerun, remotes, cur, pc>>
            /\ Calls(w, "spawn_mut") =>
                  /\ OneMoreTask("Mut")
                  /\ UNCHANGED <<rerun, remotes, cur, pc>>
            /\ Calls(w, "to_owned") =>
                  /\ remotes \subseteq remotes'
                  /\ Cardinality(remotes') = Cardinality(remotes) + 1
                  /\ UNCHANGED <<rerun, queue, local, nextId, fate, cur, pc>>]_vars
    /\ [](\A w \in Workers : pc[w] = "run" => (rerun[w] <=> HasCalled(w, "rerun")))
    /\ [][\A w \in Workers :
            (pc[w] = "run" /\ cur[w].kind = "Mut" /\ pc'[w] = "ret") =>
                (ret'[w] = "true" <=> ~HasCalled(w, "rerun"))]_vars

\* a run-repeatable closure spawned a task without calling rerun and handle
\* returned true after that one invocation; the closure of the spawned task,
\* run later, has called rerun twice in one invocation
C17_Witness ==
    \E w \in Workers : \E id \in TaskIds :
        /\ origin[id] = "handle"
        /\ KindOf(parent[id]) = "Mut"
        /\ FateOf(parent[id]) = "done" /\ RunsOf(parent[id]) = 1
        /\ pc[w] = "run" /\ cur[w].id = id
        /\ did[w] = <<"rerun", "rerun">>
        /\ rerun[w]

====
